---- MODULE Spec2Model ----
(***************************************************************************)
(* Model of the command controller in frontend/src/App.jsx: the App        *)
(* component's state (messages, isListening, generatedWebsiteUrlRef), the  *)
(* async handler handleSendMessage (its synchronous part up to the await   *)
(* on line 38 and its continuation through catch/finally), the stub        *)
(* generateWebsiteAsync, the classifier isWebsiteGenerationRequest,        *)
(* toggleListening and the unmount of the component.                       *)
(*                                                                         *)
(* Three facts about the run-time environment are not fixed by the file    *)
(* and are chosen once, nondeterministically, in Init:                     *)
(*   - classifierHoisted: whether the identifier isWebsiteGenerationRequest*)
(*     resolves at line 32.  The function is declared inside the try block *)
(*     (line 40).  Under ES2015 module (strict) scoping it is block scoped *)
(*     and line 32 throws a ReferenceError; under function-level hoisting  *)
(*     of the declaration (or an ambient definition of the same function)  *)
(*     line 32 calls it.                                                   *)
(*   - consoleWarnDefined: whether the free identifier consoleWarn used by *)
(*     generateWebsiteAsync (line 55) is bound to a function.              *)
(*   - speech: what the free identifier speech of toggleListening (line    *)
(*     28) is bound to: nothing, a falsy value, or a session object.       *)
(*                                                                         *)
(* isListening holds the value most recently passed to setIsListening:     *)
(* the handlers call the setter whether or not the component is mounted.   *)
(***************************************************************************)
EXTENDS Integers, Sequences, FiniteSets, TLC

VARIABLES messages, isListening, generatedWebsiteUrl, capturing, pending,
          classifierHoisted, consoleWarnDefined, speech,
          calls, tasksStarted, errorLog, rejections, last,
          mounted, toggled

vars == <<messages, isListening, generatedWebsiteUrl, capturing, pending,
          classifierHoisted, consoleWarnDefined, speech,
          calls, tasksStarted, errorLog, rejections, last,
          mounted, toggled>>

(* messages             useState([]) of line 5; no setMessages call exists  *)
(* isListening          useState(false) of line 7                           *)
(* generatedWebsiteUrl  generatedWebsiteUrlRef.current, useRef(null), line 8*)
(* capturing            whether speech capture is running; initSpeech       *)
(*                      (lines 12-22) starts none and keeps no session      *)
(* pending              the suspended handleSendMessage calls, oldest       *)
(*                      first, each with the settled promise it awaits      *)
(* calls, tasksStarted, errorLog, rejections                                *)
(*                      counts of handleSendMessage invocations, of         *)
(*                      generateWebsiteAsync calls (line 38), of            *)
(*                      console.error calls (line 43) and of rejected       *)
(*                      handleSendMessage promises                          *)
(* last                 the most recent operation, its argument and result  *)
(* mounted              whether the component is mounted                    *)
(* toggled              whether toggleListening has been invoked            *)

(* Bound on the number of handleSendMessage invocations in one behaviour. *)
MaxCalls == 3

----------------------------------------------------------------------------
(* Strings are sequences of one-character strings. *)

UpperCase == <<"A","B","C","D","E","F","G","H","I","J","K","L","M",
               "N","O","P","Q","R","S","T","U","V","W","X","Y","Z">>
LowerCase == <<"a","b","c","d","e","f","g","h","i","j","k","l","m",
               "n","o","p","q","r","s","t","u","v","w","x","y","z">>

(* String.prototype.toLowerCase, character by character. *)
toLowerChar(c) ==
  IF \E i \in 1..Len(UpperCase) : UpperCase[i] = c
    THEN LowerCase[CHOOSE i \in 1..Len(UpperCase) : UpperCase[i] = c]
    ELSE c

toLowerCase(s) == [i \in 1..Len(s) |-> toLowerChar(s[i])]

(* String.prototype.includes: p occurs in s as a contiguous substring. *)
includes(s, p) ==
  \E i \in 0..(Len(s) - Len(p)) : SubSeq(s, i + 1, i + Len(p)) = p

SP == <<" ">>
build    == <<"b","u","i","l","d">>
create   == <<"c","r","e","a","t","e">>
Create   == <<"C","r","e","a","t","e">>
generate == <<"g","e","n","e","r","a","t","e">>
GENERATE == <<"G","E","N","E","R","A","T","E">>
website  == <<"w","e","b","s","i","t","e">>
hello    == <<"h","e","l","l","o">>
please   == <<"p","l","e","a","s","e">>
forme    == <<"f","o","r"," ","m","e">>

Join(a, b) == a \o SP \o b

build_website    == Join(build, website)
create_website   == Join(create, website)
generate_website == Join(generate, website)

(* The inputs of handleSendMessage: single words, two-word texts, and a    *)
(* few longer utterances, among them the spec's scenario text and texts    *)
(* that contain two phrases.                                               *)
Words == {build, create, Create, generate, GENERATE, website, hello}

Samples == { Join(please, Join(create_website, forme)),
             Join(create_website, generate_website),
             Join(build_website, Join(GENERATE, website)),
             Join(Join(Create, website), generate_website) }

Texts == Words \cup {Join(a, b) : a, b \in Words} \cup Samples

----------------------------------------------------------------------------
(* Line 40: /build website|create website/.test(message), a case-sensitive *)
(* search for either alternative.                                          *)
isWebsiteGenerationRequest_Precedence(message) ==
  includes(message, build) \/ includes(message, create_website)

isWebsiteGenerationRequest(message) ==
  includes(message, build_website) \/ includes(message, create_website)

(* Line 38: lowerCaseMessage.includes('generate website'). *)
requestsGeneration_Always(messageText) == TRUE

requestsGeneration(messageText) ==
  includes(toLowerCase(messageText), generate_website)

(* Line 55: the stub calls consoleWarn and returns nothing; the promise    *)
(* is fulfilled with undefined when consoleWarn is bound and rejected with *)
(* a ReferenceError when it is not.                                        *)
generateWebsiteAsync ==
  IF consoleWarnDefined THEN [status |-> "fulfilled", value |-> "undefined"]
                        ELSE [status |-> "rejected",  value |-> "ReferenceError"]

NoText == <<>>

----------------------------------------------------------------------------
Init ==
  /\ messages = <<>>
  /\ isListening = FALSE
  /\ generatedWebsiteUrl = "null"
  /\ capturing = FALSE
  /\ pending = <<>>
  /\ classifierHoisted \in BOOLEAN
  /\ consoleWarnDefined \in BOOLEAN
  /\ speech \in {"undeclared", "falsy", "session"}
  /\ calls = 0
  /\ tasksStarted = 0
  /\ errorLog = 0
  /\ rejections = 0
  /\ last = [op |-> "mount", text |-> NoText, outcome |-> "returned",
             task |-> "none", sets |-> <<>>, stopped |-> FALSE]
  /\ mounted = TRUE
  /\ toggled = FALSE

env == <<classifierHoisted, consoleWarnDefined, speech>>

(* The record kept in last: the operation, its argument, how it ended, what *)
(* it did with the generation task, the values it passed to setIsListening *)
(* in order, and whether it called speech.stop().                          *)
Op(op, text, outcome, task, sets, stopped) ==
  [op |-> op, text |-> text, outcome |-> outcome, task |-> task,
   sets |-> sets, stopped |-> stopped]

(* Line 32 with the classifier out of scope: the call throws outside the   *)
(* try block, so the promise of handleSendMessage is rejected and nothing  *)
(* else happens.                                                           *)
handleSendMessage_Throws(messageText) ==
  /\ ~classifierHoisted
  /\ rejections' = rejections + 1
  /\ last' = Op("handleSendMessage", messageText, "rejected", "none", <<>>, FALSE)
  /\ UNCHANGED <<messages, isListening, generatedWebsiteUrl, capturing,
                 pending, tasksStarted, errorLog>>

(* Line 32: not a request, early return. *)
handleSendMessage_Return_Replaces(messageText) ==
  /\ classifierHoisted
  /\ ~isWebsiteGenerationRequest(messageText)
  /\ messages' = <<[origin |-> "User", text |-> messageText]>>
  /\ last' = Op("handleSendMessage", messageText, "resolved", "none", <<>>, FALSE)
  /\ UNCHANGED <<isListening, generatedWebsiteUrl, capturing,
                 pending, tasksStarted, errorLog, rejections>>

handleSendMessage_Return(messageText) ==
  /\ classifierHoisted
  /\ ~isWebsiteGenerationRequest(messageText)
  /\ last' = Op("handleSendMessage", messageText, "resolved", "none", <<>>, FALSE)
  /\ UNCHANGED <<messages, isListening, generatedWebsiteUrl, capturing,
                 pending, tasksStarted, errorLog, rejections>>

(* Lines 35-44 without the await: setIsListening(true), the substring test *)
(* fails, finally setIsListening(false).                                   *)
handleSendMessage_NoTask(messageText) ==
  /\ classifierHoisted
  /\ isWebsiteGenerationRequest(messageText)
  /\ ~requestsGeneration(messageText)
  /\ isListening' = FALSE
  /\ last' = Op("handleSendMessage", messageText, "resolved", "none",
                <<TRUE, FALSE>>, FALSE)
  /\ UNCHANGED <<messages, generatedWebsiteUrl, capturing,
                 pending, tasksStarted, errorLog, rejections>>

(* Lines 35-38: setIsListening(true), generateWebsiteAsync() is called and *)
(* the handler suspends on the await.                                      *)
handleSendMessage_Await(messageText) ==
  /\ classifierHoisted
  /\ isWebsiteGenerationRequest(messageText)
  /\ requestsGeneration(messageText)
  /\ isListening' = TRUE
  /\ tasksStarted' = tasksStarted + 1
  /\ pending' = Append(pending, generateWebsiteAsync)
  /\ last' = Op("handleSendMessage", messageText, "awaiting", "started",
                <<TRUE>>, FALSE)
  /\ UNCHANGED <<messages, generatedWebsiteUrl, capturing, errorLog, rejections>>

(* handleSendMessage is invoked only while the component is mounted; it    *)
(* tests neither isListening nor any in-flight marker.                     *)
handleSendMessage(messageText) ==
  /\ mounted
  /\ calls < MaxCalls
  /\ calls' = calls + 1
  /\ UNCHANGED env
  /\ UNCHANGED <<mounted, toggled>>
  /\ \/ handleSendMessage_Throws(messageText)
     \/ handleSendMessage_Return(messageText)
     \/ handleSendMessage_NoTask(messageText)
     \/ handleSendMessage_Await(messageText)

(* The continuation of the oldest suspended handleSendMessage: the awaited *)
(* value is discarded; a rejection is caught and logged once (line 43);    *)
(* finally setIsListening(false) (line 44).  The continuation has no test  *)
(* of whether the component is still mounted.                              *)
handleSendMessageResume_NoFinally ==
  /\ pending # <<>>
  /\ pending' = Tail(pending)
  /\ errorLog' = IF Head(pending).status = "rejected" THEN errorLog + 1 ELSE errorLog
  /\ last' = Op("resume", NoText, "resolved", Head(pending).status, <<>>, FALSE)
  /\ UNCHANGED <<messages, isListening, generatedWebsiteUrl, capturing, calls,
                 tasksStarted, rejections, mounted, toggled>>
  /\ UNCHANGED env

handleSendMessageResume_StoresResult ==
  /\ pending # <<>>
  /\ pending' = Tail(pending)
  /\ errorLog' = IF Head(pending).status = "rejected" THEN errorLog + 1 ELSE errorLog
  /\ generatedWebsiteUrl' = Head(pending).value
  /\ isListening' = FALSE
  /\ last' = Op("resume", NoText, "resolved", Head(pending).status, <<FALSE>>, FALSE)
  /\ UNCHANGED <<messages, capturing, calls, tasksStarted, rejections,
                 mounted, toggled>>
  /\ UNCHANGED env

handleSendMessageResume_LogsInFinally ==
  /\ pending # <<>>
  /\ pending' = Tail(pending)
  /\ errorLog' = IF Head(pending).status = "rejected" THEN errorLog + 2 ELSE errorLog + 1
  /\ isListening' = FALSE
  /\ last' = Op("resume", NoText, "resolved", Head(pending).status, <<FALSE>>, FALSE)
  /\ UNCHANGED <<messages, generatedWebsiteUrl, capturing, calls,
                 tasksStarted, rejections, mounted, toggled>>
  /\ UNCHANGED env

handleSendMessageResume ==
  /\ pending # <<>>
  /\ pending' = Tail(pending)
  /\ errorLog' = IF Head(pending).status = "rejected" THEN errorLog + 1 ELSE errorLog
  /\ isListening' = FALSE
  /\ last' = Op("resume", NoText, "resolved", Head(pending).status, <<FALSE>>, FALSE)
  /\ UNCHANGED <<messages, generatedWebsiteUrl, capturing, calls,
                 tasksStarted, rejections, mounted, toggled>>
  /\ UNCHANGED env

(* Line 28: speech && (speech.stop(), setIsListening(false)). *)
toggleListening_Flips ==
  /\ mounted
  /\ isListening' = IF speech = "session" THEN ~isListening ELSE isListening
  /\ toggled' = TRUE
  /\ last' = Op("toggleListening", NoText,
                IF speech = "undeclared" THEN "threw" ELSE "returned", "none",
                IF speech = "session" THEN <<~isListening>> ELSE <<>>,
                speech = "session")
  /\ UNCHANGED <<messages, generatedWebsiteUrl, capturing, pending, calls,
                 tasksStarted, errorLog, rejections, mounted>>
  /\ UNCHANGED env

toggleListening ==
  /\ mounted
  /\ isListening' = IF speech = "session" THEN FALSE ELSE isListening
  /\ toggled' = TRUE
  /\ last' = Op("toggleListening", NoText,
                IF speech = "undeclared" THEN "threw" ELSE "returned", "none",
                IF speech = "session" THEN <<FALSE>> ELSE <<>>,
                speech = "session")
  /\ UNCHANGED <<messages, generatedWebsiteUrl, capturing, pending, calls,
                 tasksStarted, errorLog, rejections, mounted>>
  /\ UNCHANGED env

(* Unmount.  The effect callback of lines 11-25 calls initSpeech() without *)
(* returning its result, so the cleanup function of line 21 is never       *)
(* registered: unmounting runs no code of the component.                   *)
unmount ==
  /\ mounted
  /\ mounted' = FALSE
  /\ last' = Op("unmount", NoText, "returned", "none", <<>>, FALSE)
  /\ UNCHANGED <<messages, isListening, generatedWebsiteUrl, capturing, pending,
                 calls, tasksStarted, errorLog, rejections, toggled>>
  /\ UNCHANGED env

Next ==
  \/ \E messageText \in Texts : handleSendMessage(messageText)
  \/ handleSendMessageResume
  \/ toggleListening
  \/ unmount

Spec == Init /\ [][Next]_vars

(* The awaited promise is already settled when the handler suspends, so    *)
(* its continuation is a queued microtask that the event loop runs.        *)
FairSpec == Spec /\ WF_vars(handleSendMessageResume)

----------------------------------------------------------------------------
(* Vocabulary of the properties. *)

(* The trigger phrases of the specification: "build website", "create      *)
(* website" or "generate website", in any letter case.                     *)
SpecTrigger(text) ==
  \/ includes(toLowerCase(text), build_website)
  \/ includes(toLowerCase(text), create_website)
  \/ includes(toLowerCase(text), generate_website)

UserEntry(text) == [origin |-> "User", text |-> text]

(* Steps of the two halves of handleSendMessage. *)
SubmitStep == calls' = calls + 1
ResumeStep == pending # <<>> /\ pending' = Tail(pending)

(* Number of generation tasks whose successful result has been delivered. *)
TasksSucceeded ==
  IF consoleWarnDefined THEN tasksStarted - Len(pending) ELSE 0

C2_NeverLeftBusy == isListening ~> ~isListening

C2_Witness ==
  /\ last.op = "resume"
  /\ tasksStarted > 0
  /\ ~isListening

(* C3: handleSendMessage never rejects: no error reaches its caller.       *)
C3_SubmitNeverRejects == rejections = 0

(* C4: every submitted text that contains a trigger phrase of the          *)
(* specification, in any letter case, is classified as a request.          *)
C4_TriggerPhrasesClassified ==
  (last.op = "handleSendMessage" /\ SpecTrigger(last.text))
    => isWebsiteGenerationRequest(last.text)

(* C5: a submitted text that matches none of the trigger phrases is not    *)
(* classified as a request and its submission starts no generation task,   *)
(* whatever happened before.                                               *)
C5_NonTriggerRunsNoTask ==
  (last.op = "handleSendMessage" /\ ~SpecTrigger(last.text))
    => (~isWebsiteGenerationRequest(last.text) /\ last.task = "none")

C5_Witness ==
  /\ last.op = "handleSendMessage"
  /\ ~SpecTrigger(last.text)
  /\ classifierHoisted
  /\ last.outcome = "resolved"
  /\ pending # <<>>

(* C6: submitting a text that is not a command appends exactly one User    *)
(* entry with that text, leaves the Listening flag and the artifact        *)
(* unchanged and runs no task.                                             *)
C6_NonCommandAppendsUserEntry ==
  [][ (SubmitStep /\ ~SpecTrigger(last'.text))
        => /\ messages' = Append(messages, UserEntry(last'.text))
           /\ isListening' = isListening
           /\ generatedWebsiteUrl' = generatedWebsiteUrl
           /\ tasksStarted' = tasksStarted ]_vars

(* C7: submitting a command from Idle sets the Listening flag, appends a   *)
(* User entry and starts a task; the flag is cleared only by the task's    *)
(* completion or a toggle; on success the flag is false and the artifact   *)
(* URL is set.                                                             *)
C7_CommandStartsTask ==
  /\ [][ (SubmitStep /\ SpecTrigger(last'.text) /\ ~isListening /\ pending = <<>>)
           => /\ isListening'
              /\ tasksStarted' = tasksStarted + 1
              /\ messages' = Append(messages, UserEntry(last'.text)) ]_vars
  /\ [][ (isListening /\ ~isListening')
           => (ResumeStep \/ last'.op = "toggleListening") ]_vars
  /\ [][ (ResumeStep /\ Head(pending).status = "fulfilled")
           => (~isListening' /\ generatedWebsiteUrl' # "null") ]_vars

C9_FailureKeepsArtifact ==
  /\ [][ (ResumeStep /\ Head(pending).status = "rejected")
           => /\ generatedWebsiteUrl' = generatedWebsiteUrl
              /\ messages' = messages ]_vars
  /\ [](generatedWebsiteUrl # "null" => TasksSucceeded > 0)

C9_Witness ==
  /\ last.op = "resume"
  /\ last.task = "rejected"
  /\ errorLog > 0
  /\ generatedWebsiteUrl = "null"

----------------------------------------------------------------------------
ToggleStep  == last'.op = "toggleListening"
UnmountStep == mounted /\ ~mounted'

IsPrefix(a, b) == Len(a) <= Len(b) /\ SubSeq(b, 1, Len(a)) = a

(* C11: toggleListening can be invoked in any state without failing,       *)
(* forces the Listening flag to false, and leaves the in-flight tasks, the *)
(* transcript and the artifact as they were.                               *)
C11_ToggleForcesIdleOnly ==
  [][ ToggleStep
        => /\ last'.outcome = "returned"
           /\ ~isListening'
           /\ pending' = pending
           /\ messages' = messages
           /\ generatedWebsiteUrl' = generatedWebsiteUrl ]_vars

(* C12: without a speech session toggleListening changes no state and      *)
(* does not throw, and a command submission still starts the generation    *)
(* task.                                                                   *)
C12_UnavailableToggleNoOp ==
  /\ [][ (ToggleStep /\ speech # "session")
           => /\ last'.outcome = "returned"
              /\ UNCHANGED <<messages, isListening, generatedWebsiteUrl,
                             capturing, pending>> ]_vars
  /\ []( ( /\ speech # "session"
           /\ last.op = "handleSendMessage"
           /\ last.outcome # "rejected"
           /\ isWebsiteGenerationRequest(last.text)
           /\ requestsGeneration(last.text) )
         => last.task = "started" )

(* C13: stopping when already Idle changes no state and does not throw.    *)
C13_StopIdempotent ==
  [][ (ToggleStep /\ ~isListening)
        => /\ last'.outcome = "returned"
           /\ UNCHANGED <<messages, isListening, generatedWebsiteUrl,
                          capturing, pending>> ]_vars

(* C14: unmounting stops the capture session and leaves the Listening flag *)
(* false, whatever is in flight.                                           *)
C14_DisposalForcesIdle ==
  [][ UnmountStep
        => /\ ~isListening'
           /\ (speech = "session" => last'.stopped) ]_vars

C16_TranscriptAppendOnly == [][ IsPrefix(messages, messages') ]_vars

C16_Witness ==
  /\ ~mounted
  /\ toggled
  /\ calls > 1
  /\ tasksStarted > 0
  /\ pending = <<>>

(* C17: a failed task is logged exactly once, by the continuation that     *)
(* catches it, and nothing else logs.                                      *)
C17_FailureLoggedOnce ==
  /\ [][ (ResumeStep /\ Head(pending).status = "rejected")
           => errorLog' = errorLog + 1 ]_vars
  /\ [][ errorLog' # errorLog
           => (ResumeStep /\ Head(pending).status = "rejected") ]_vars

C17_Witness ==
  /\ last.op = "resume"
  /\ last.task = "rejected"
  /\ tasksStarted = 1
  /\ errorLog = 1

(* C18: a submission starts the task only if its text passes the           *)
(* classifier and, lower-cased, contains 'generate website'; a text that   *)
(* passes the classifier only has the flag set true, then false, and no    *)
(* task.                                                                   *)
C18_BothGates ==
  last.op = "handleSendMessage"
    => /\ last.task = "started"
            => /\ isWebsiteGenerationRequest(last.text)
               /\ includes(toLowerCase(last.text), generate_website)
       /\ ( /\ classifierHoisted
            /\ isWebsiteGenerationRequest(last.text)
            /\ ~includes(toLowerCase(last.text), generate_website) )
            => /\ last.task = "none"
               /\ last.sets = <<TRUE, FALSE>>
               /\ ~isListening

C18_Witness ==
  /\ last.op = "handleSendMessage"
  /\ isWebsiteGenerationRequest(last.text)
  /\ last.sets = <<TRUE, FALSE>>
  /\ last.task = "none"
  /\ tasksStarted > 0

C20_ToggleOnlyTowardIdle ==
  /\ [][ ToggleStep
           => /\ (isListening' => isListening)
              /\ capturing' = capturing ]_vars
  /\ [][ (~isListening /\ isListening')
           => (SubmitStep /\ last'.task = "started") ]_vars

C20_Witness ==
  /\ last.op = "toggleListening"
  /\ last.stopped
  /\ ~isListening
  /\ pending # <<>>

====
